---- MODULE Spec2Model ----
(***************************************************************************)
(* A model of jmpydupes (finddupes.py): the File Index (the sqlite table   *)
(* "files"), the scan coordinator with its worker threads, the duplicate   *)
(* resolver get_duplicates, and the maintenance operations                 *)
(* rescan_duplicates, remove_missing_files and delete_duplicates.          *)
(*                                                                         *)
(* Path strings are sequences of one-character strings, so that the        *)
(* string operations of the code (startswith, LIKE, normpath, PurePath)    *)
(* are computed on characters as the code computes them.                   *)
(***************************************************************************)
EXTENDS Integers, Sequences, FiniteSets, TLC

\* ------------------------------------------------------------------------
\* Strings and paths
\* ------------------------------------------------------------------------

\* The empty string; also stands for None where the code tests truthiness
\* ("if within_directory:", "if preferred_source_directories:", "if output_file:").
Empty == <<>>

SLASH == "/"

\* The process's working directory (os.getcwd()), the root of the scanned tree.
CWD == <<"/", "w">>

\* The regular files the tree under CWD may hold, as resolved absolute paths.
pA  == <<"/", "w", "/", "a", "/", "f">>
pAS == <<"/", "w", "/", "a", "/", "s", "/", "f">>
pA0 == <<"/", "w", "/", "a", "0", "/", "f">>
pB  == <<"/", "w", "/", "b", "/", "f">>

Paths == {pA, pAS, pA0, pB}

\* Directories, as a caller may write them.
dW    == <<"/", "w">>
dA    == <<"/", "w", "/", "a">>
dAsl  == <<"/", "w", "/", "a", "/">>
dAS   == <<"/", "w", "/", "a", "/", "s">>
dB    == <<"/", "w", "/", "b">>
dP    == <<"/", "w", "/", "p">>
dWild == <<"/", "w", "/", "_">>
relA  == <<"a">>

\* str.startswith
StartsWith(s, prefix) ==
    /\ Len(prefix) <= Len(s)
    /\ SubSeq(s, 1, Len(prefix)) = prefix

\* The SQL operator  s LIKE pattern  of sqlite: "%" matches any run of
\* characters, "_" matches any one character, any other character matches
\* itself (the alphabet of the model has no upper-case letters).
RECURSIVE Like(_, _)
Like(s, pattern) ==
    IF pattern = <<>> THEN s = <<>>
    ELSE IF Head(pattern) = "%"
         THEN Like(s, Tail(pattern)) \/ (s # <<>> /\ Like(Tail(s), pattern))
         ELSE /\ s # <<>>
              /\ (Head(pattern) = "_" \/ Head(pattern) = Head(s))
              /\ Like(Tail(s), Tail(pattern))

\* str.split("/"): the segments between slashes, empty ones included.
RECURSIVE SplitSlash(_)
SplitSlash(s) ==
    IF s = <<>> THEN << <<>> >>
    ELSE LET rest == SplitSlash(Tail(s))
         IN  IF Head(s) = SLASH
             THEN << <<>> >> \o rest
             ELSE << <<Head(s)>> \o Head(rest) >> \o Tail(rest)

\* "/".join(segments)
RECURSIVE JoinSlash(_)
JoinSlash(segs) ==
    IF segs = <<>> THEN <<>>
    ELSE IF Len(segs) = 1 THEN Head(segs)
    ELSE Head(segs) \o <<SLASH>> \o JoinSlash(Tail(segs))

IsAbs(s) == s # <<>> /\ Head(s) = SLASH

IsRealSegment(seg) == seg # <<>> /\ seg # <<".">>

\* The ".." segments of a path cancel the segment before them (posixpath.normpath).
RECURSIVE CollapseDotDot(_, _, _)
CollapseDotDot(segs, acc, abs) ==
    IF segs = <<>> THEN acc
    ELSE IF Head(segs) = <<".", ".">>
         THEN IF acc # <<>> /\ acc[Len(acc)] # <<".", ".">>
              THEN CollapseDotDot(Tail(segs), SubSeq(acc, 1, Len(acc) - 1), abs)
              ELSE IF abs
                   THEN CollapseDotDot(Tail(segs), acc, abs)
                   ELSE CollapseDotDot(Tail(segs), Append(acc, Head(segs)), abs)
         ELSE CollapseDotDot(Tail(segs), Append(acc, Head(segs)), abs)

\* os.path.normpath: drops empty and "." segments and a trailing slash,
\* cancels "..", and gives "." for the empty path.
normpath(s) ==
    LET segs == CollapseDotDot(SelectSeq(SplitSlash(s), IsRealSegment), <<>>, IsAbs(s))
        body == JoinSlash(segs)
    IN  IF IsAbs(s) THEN <<SLASH>> \o body
        ELSE IF body = <<>> THEN <<".">> ELSE body

\* os.path.abspath: a relative path is joined to the working directory, and
\* the result is normalised.
abspath(s) ==
    IF IsAbs(s) THEN normpath(s) ELSE normpath(CWD \o <<SLASH>> \o s)

\* PurePath(s).parts: the root (if any) and then the segments; empty and "."
\* segments are dropped, ".." is kept.
Parts(s) ==
    LET segs == SelectSeq(SplitSlash(s), IsRealSegment)
    IN  IF IsAbs(s) THEN << <<SLASH>> >> \o segs ELSE segs

\* str(PurePath(s))
PathStr(s) ==
    LET segs == SelectSeq(SplitSlash(s), IsRealSegment)
        body == JoinSlash(segs)
    IN  IF IsAbs(s) THEN <<SLASH>> \o body
        ELSE IF body = <<>> THEN <<".">> ELSE body

\* preferred_path in path_obj.parents or preferred_path == path_obj.parent:
\* the parents of a path are the proper prefixes of its parts (for a relative
\* path "." is among them, the path of no parts).
IsAncestor(preferred_dir, file_path) ==
    LET pp == Parts(preferred_dir)
        fp == Parts(file_path)
    IN  \E k \in (IF IsAbs(file_path) THEN 1 ELSE 0) .. (Len(fp) - 1) :
            SubSeq(fp, 1, k) = pp

\* ------------------------------------------------------------------------
\* Files and the File Index
\* ------------------------------------------------------------------------

\* Python's None for an optional value; a present value x is <<x>>.
None == <<>>
Some(x) == <<x>>

\* File contents the tree may hold.
Contents == {"11111", "222222"}

\* What disk[p] is when no file exists at p.
NoFile == "absent"

\* stat.st_size of a file with content c.
Size(c) == IF c = "11111" THEN 5 ELSE 6

\* xxhash.xxh64(content).hexdigest(): distinct contents of the model have
\* distinct digests.
Digest(c) == IF c = "11111" THEN "h1" ELSE "h2"

Hashes == {Digest(c) : c \in Contents}

\* A row of the table "files" (hash, path, size); the index is the sequence of
\* its rows in rowid order, the order in which "SELECT ... FROM files" returns
\* them.
Row(h, p, sz) == [hash |-> h, path |-> p, size |-> sz]

Range(seq) == {seq[i] : i \in 1 .. Len(seq)}

Min(S) == CHOOSE x \in S : \A y \in S : x <= y

\* ------------------------------------------------------------------------
\* Inputs
\* ------------------------------------------------------------------------

\* The preference lists and within-directories get_duplicates is called with.
PrefLists ==
    {Empty, <<dA>>, <<relA>>, <<dA, dB>>, <<dB, dA>>, <<dA, dAS>>, <<dAS, dA>>, <<dP>>}

WithinDirs == {Empty, dA, dAsl, relA, dB, dW, dWild}

\* Those delete_duplicates is called with.
DeletePrefLists == {Empty, <<dA>>, <<relA>>, <<dB, dA>>}

DeleteWithinDirs == {Empty, dA, dB}

\* ------------------------------------------------------------------------
\* get_duplicates
\* ------------------------------------------------------------------------

\* Faulty variant of PreferenceLevel: the last matching directory wins.
PreferenceLevel_LastMatch(preferred_source_directories, file_path) ==
    LET matching == {i \in 1 .. Len(preferred_source_directories) :
                        IsAncestor(preferred_source_directories[i], file_path)}
    IN  IF matching = {} THEN None
        ELSE Some((CHOOSE i \in matching : \A j \in matching : j <= i) - 1)

\* The first index (from 0) of a preferred directory that is an ancestor of
\* the file, None when there is none or no list was given.
PreferenceLevel(preferred_source_directories, file_path) ==
    LET matching == {i \in 1 .. Len(preferred_source_directories) :
                        IsAncestor(preferred_source_directories[i], file_path)}
    IN  IF matching = {} THEN None ELSE Some(Min(matching) - 1)

\* One entry of file_info, as the loop body computes it.
NewFileInfo(file_hash, file_path, preferred_source_directories) ==
    [path             |-> file_path,
     num_folders      |-> Len(Parts(file_path)) - 1,
     path_length      |-> Len(PathStr(file_path)),
     hash             |-> file_hash,
     preference_level |-> PreferenceLevel(preferred_source_directories, file_path)]

\* The entries of file_info over the hashes, paths and preference lists of the
\* model, computed once.
FileInfoTable ==
    [h \in Hashes, p \in Paths, prefs \in PrefLists \cup DeletePrefLists |->
        NewFileInfo(h, p, prefs)]

FileInfo(file_hash, file_path, preferred_source_directories) ==
    FileInfoTable[file_hash, file_path, preferred_source_directories]

\* The entries of file_info with the fewest folders and, among them, the
\* shortest path, in the order of file_info.
FewestFoldersShortestPath(file_info) ==
    LET HasMinFolders(info) == \A o \in Range(file_info) : info.num_folders <= o.num_folders
        candidates == SelectSeq(file_info, HasMinFolders)
        HasMinLength(info) == \A o \in Range(candidates) : info.path_length <= o.path_length
    IN  SelectSeq(candidates, HasMinLength)

\* Faulty variant of select_default_original: the first entry, whatever its
\* depth and length.
select_default_original_First(file_info) == file_info[1]

select_default_original(file_info) == FewestFoldersShortestPath(file_info)[1]

\* The choice among the members of the lowest preference level.
select_preferred_original(preferred_files) ==
    LET IsHighest(info) ==
            \A o \in Range(preferred_files) : info.preference_level[1] <= o.preference_level[1]
        highest_pref_files == SelectSeq(preferred_files, IsHighest)
    IN  FewestFoldersShortestPath(highest_pref_files)[1]

\* The normalised within_directory of get_duplicates and delete_duplicates.
NormWithin(within_directory) ==
    IF within_directory # Empty THEN normpath(abspath(within_directory)) ELSE Empty

\* The normalised within-directories of the model.
NormWithinDirs == {NormWithin(w) : w \in WithinDirs \cup DeleteWithinDirs}

\* "path LIKE within_directory%" and
\* "os.path.normpath(path).startswith(within_directory)" over the paths and
\* within-directories of the model, computed once.
LikeTable ==
    [wd \in NormWithinDirs, p \in Paths |-> Like(p, wd \o <<"%">>)]

StartsWithTable ==
    [wd \in NormWithinDirs, p \in Paths |-> StartsWith(normpath(p), wd)]

\* Faulty variant of Within: the rows the query returned are not filtered again.
Within_All(p, within_directory) == TRUE

\* Whether the code takes a path to lie within within_directory (normalised).
Within(p, within_directory) ==
    within_directory = Empty \/ StartsWithTable[within_directory, p]

\* Faulty variant of DuplicatesOf: the original is listed with its duplicates.
DuplicatesOf_All(file_info, original) == file_info

\* The duplicates of a group: the entries of file_info other than the original.
DuplicatesOf(file_info, original) ==
    LET NotOriginal(info) == info.path # original.path
    IN  SelectSeq(file_info, NotOriginal)

\* Faulty variant of NoMatchingOriginal: the flag is set without a preference
\* list too.
NoMatchingOriginal_WithoutList(preferred_source_directories, preferred_files) ==
    preferred_files = <<>>

\* The flag no_matching_original: a preference list was given and no entry of
\* file_info has a preference level.
NoMatchingOriginal(preferred_source_directories, preferred_files) ==
    preferred_source_directories # Empty /\ preferred_files = <<>>

\* The group of one hash, as a sequence of zero or one groups.
GroupOf(file_hash, paths, preferred_source_directories, within_directory) ==
    LET InScope(p) == Within(p, within_directory)
        kept == SelectSeq(paths, InScope)
        file_info == [i \in 1 .. Len(kept) |->
                        FileInfo(file_hash, kept[i], preferred_source_directories)]
        IsPreferred(info) == info.preference_level # None
        preferred_files == SelectSeq(file_info, IsPreferred)
        no_matching_original ==
            NoMatchingOriginal(preferred_source_directories, preferred_files)
        original ==
            IF preferred_source_directories # Empty /\ preferred_files # <<>>
            THEN select_preferred_original(preferred_files)
            ELSE select_default_original(file_info)
    IN  IF Len(paths) < 2 \/ Len(file_info) < 2 THEN <<>>
        ELSE << [hash                 |-> file_hash,
                 original             |-> original,
                 duplicates           |-> DuplicatesOf(file_info, original),
                 no_matching_original |-> no_matching_original] >>

\* Faulty variant of HashOrder: one key per row.
HashOrder_PerRow(rows, seen) == [i \in 1 .. Len(rows) |-> rows[i].hash]

\* The keys of files_by_hash in insertion order: each hash once, at its first row.
RECURSIVE HashOrder(_, _)
HashOrder(rows, seen) ==
    IF rows = <<>> THEN <<>>
    ELSE IF Head(rows).hash \in seen
         THEN HashOrder(Tail(rows), seen)
         ELSE <<Head(rows).hash>> \o HashOrder(Tail(rows), seen \cup {Head(rows).hash})

\* files_by_hash[h]: the paths of the rows with hash h, in row order.
PathsOfHash(rows, h) ==
    LET HasHash(r) == r.hash = h
        sel == SelectSeq(rows, HasHash)
    IN  [i \in 1 .. Len(sel) |-> sel[i].path]

RECURSIVE GroupsOf(_, _, _, _)
GroupsOf(hashes, rows, preferred_source_directories, within_directory) ==
    IF hashes = <<>> THEN <<>>
    ELSE GroupOf(Head(hashes), PathsOfHash(rows, Head(hashes)),
                 preferred_source_directories, within_directory)
         \o GroupsOf(Tail(hashes), rows, preferred_source_directories, within_directory)

\* "SELECT hash, path FROM files [WHERE path LIKE within_directory%]"
SelectFiles(idx, within_directory) ==
    LET Matches(r) == LikeTable[within_directory, r.path]
    IN  IF within_directory # Empty THEN SelectSeq(idx, Matches) ELSE idx

get_duplicates(idx, preferred_source_directories, within_directory) ==
    LET wd == NormWithin(within_directory)
        all_files == SelectFiles(idx, wd)
    IN  GroupsOf(HashOrder(all_files, {}), all_files, preferred_source_directories, wd)

\* ------------------------------------------------------------------------
\* State
\* ------------------------------------------------------------------------

VARIABLES
    disk,            \* the tree: disk[p] is the content of the file at p, or NoFile
    index,           \* the table "files": its rows in rowid order
    processed_data,  \* the module's global list of worker results
    scanning,        \* TRUE between main's thread start and its batch insert
    file_queue,      \* the Queue of main: the paths not yet taken by a worker
    worker,          \* worker[t]: where thread t is in worker_thread, and its file
    out_file,        \* the log file of delete_duplicates: NoFile or its rows
    last,            \* the last call of get_duplicates / delete_duplicates and its result
    upserted,        \* upserted[p]: the (hash, size) of the latest write of p's row, or None
    steps,           \* how many scans, maintenance runs and filesystem events have happened
    calls,           \* how many calls of get_duplicates and delete_duplicates have happened
    overall_pbar,    \* the count of main's overall progress bar
    batch,           \* the transaction of insert_data_batch: its rows not yet committed
    upserter         \* upserter[c]: where caller c is in insert_data, and what it holds

vars == <<disk, index, processed_data, scanning, file_queue,
          worker, out_file, last, upserted, steps, calls,
          overall_pbar, batch, upserter>>

\* The bounds of the model.
MaxThreads == 2
MaxSteps == 3
MaxCalls == 1
MaxRows == 3
MaxScans == 2
MaxCallers == 2

Threads == 1 .. MaxThreads

\* The callers of insert_data that may run at the same time.
Callers == 1 .. MaxCallers

\* A caller that is not in insert_data.
IdleCaller == [pc |-> "idle", data |-> <<>>, existing_file |-> 0]

\* No transaction of insert_data_batch is open.
NoBatch == [pc |-> "idle", view |-> <<>>, rest |-> <<>>]

Exists(d, p) == p \in Paths /\ d[p] # NoFile

IndexPaths(idx) == {idx[i].path : i \in 1 .. Len(idx)}

\* ------------------------------------------------------------------------
\* The File Index: insert_data, insert_data_batch
\* ------------------------------------------------------------------------

RowIndexOf(idx, p) == CHOOSE i \in 1 .. Len(idx) : idx[i].path = p

\* Faulty variant of InsertOrReplace, a plain "INSERT" into a table without
\* the UNIQUE constraint: a path that has a row gets a second one.
InsertOrReplace_Insert(idx, data) == Append(idx, Row(data[1], data[2], data[3]))

\* Faulty variant of InsertOrReplace, "INSERT OR IGNORE": a path that has a row
\* keeps it.
InsertOrReplace_Ignore(idx, data) ==
    IF data[2] \in IndexPaths(idx) THEN idx
    ELSE Append(idx, Row(data[1], data[2], data[3]))

\* "INSERT OR REPLACE INTO files": the row that holds the path (path is
\* UNIQUE) is deleted and the new row gets a fresh, largest rowid.
InsertOrReplace(idx, data) ==
    LET OtherPath(r) == r.path # data[2]
    IN  Append(SelectSeq(idx, OtherPath), Row(data[1], data[2], data[3]))

\* insert_data_batch: executemany over data_list in list order, one commit.
RECURSIVE insert_data_batch(_, _)
insert_data_batch(idx, data_list) ==
    IF data_list = <<>> THEN idx
    ELSE insert_data_batch(InsertOrReplace(idx, Head(data_list)), Tail(data_list))

\* insert_data: UPDATE the row of the path in place if there is one, else INSERT.
insert_data(idx, data) ==
    IF data[2] \in IndexPaths(idx)
    THEN [idx EXCEPT ![RowIndexOf(idx, data[2])] = Row(data[1], data[2], data[3])]
    ELSE Append(idx, Row(data[1], data[2], data[3]))

\* The latest write of each path's row, after the writes of data_list in order.
RECURSIVE NoteUpserts(_, _)
NoteUpserts(ups, data_list) ==
    IF data_list = <<>> THEN ups
    ELSE NoteUpserts([ups EXCEPT ![Head(data_list)[2]] =
                          Some(<<Head(data_list)[1], Head(data_list)[3]>>)],
                     Tail(data_list))

\* ------------------------------------------------------------------------
\* Hashing: process_file and the body of worker_thread
\* ------------------------------------------------------------------------

\* Path(file_path).resolve() / Path(file_path).absolute(): the tree has no
\* symbolic links.
Resolve(file_path) == abspath(file_path)

\* (file_hash, str(file_path), size) of an existing file.
HashFile(d, file_path) ==
    <<Digest(d[Resolve(file_path)]), Resolve(file_path), Size(d[Resolve(file_path)])>>

\* process_file: None for a path that does not exist, else Some(data).
process_file(d, file_path) ==
    IF ~Exists(d, Resolve(file_path)) THEN None ELSE Some(HashFile(d, file_path))

\* ------------------------------------------------------------------------
\* walk_directory
\* ------------------------------------------------------------------------

\* Faulty variant of FilesUnder: the walk does not stay below the directory.
FilesUnder_WholeTree(d, root) == {p \in Paths : Exists(d, p)}

\* The files of the tree under a directory (given as an absolute path).
FilesUnder(d, root) == {p \in Paths : Exists(d, p) /\ StartsWith(p, root \o <<SLASH>>)}

\* os.path.join(root, name) as os.walk(directory) builds it: the directory as
\* the caller wrote it, then the path of the file below it.
WalkName(directory, p) ==
    directory \o SubSeq(p, Len(abspath(directory)) + 1, Len(p))

\* The files of the tree in the order os.walk(topdown=True) meets them: a
\* directory's own files come before those of its subdirectories, a subtree
\* is walked in one piece, and the filesystem of the model lists the entries
\* of a directory in name order.
TreeOrder == <<pA, pAS, pA0, pB>>

\* walk_directory: the files under the directory that exist, as a list.
walk_directory(d, directory) ==
    LET IsUnder(p) == p \in FilesUnder(d, abspath(directory))
        found == SelectSeq(TreeOrder, IsUnder)
    IN  [i \in 1 .. Len(found) |-> WalkName(directory, found[i])]

\* load_existing_paths
load_existing_paths(idx) == IndexPaths(idx)

\* ------------------------------------------------------------------------
\* main: the scan
\* ------------------------------------------------------------------------

\* The directories main is called with.
ScanDirs == {<<".">>, dA, dB}

WorkerAt(pc) == [pc |-> pc, file |-> Empty]

\* main up to the start of the worker threads.  With nothing to process it
\* returns at once.
BeginScan(directory, skip_existing, num_threads) ==
    /\ ~scanning
    /\ steps < MaxSteps
    /\ LET files == walk_directory(disk, directory)
           IsNew(f) == Resolve(f) \notin load_existing_paths(index)
           files_to_process == IF skip_existing THEN SelectSeq(files, IsNew) ELSE files
       IN  IF files_to_process = <<>>
           THEN UNCHANGED <<scanning, file_queue, worker, overall_pbar>>
           ELSE /\ scanning' = TRUE
                /\ overall_pbar' = 0
                /\ file_queue' = files_to_process
                /\ worker' = [t \in Threads |->
                                 WorkerAt(IF t <= num_threads THEN "test" ELSE "off")]
    /\ steps' = steps + 1
    /\ UNCHANGED <<disk, index, processed_data, out_file, upserted, calls,
                   batch, upserter>>

StartScan(directory, skip_existing, num_threads) ==
    /\ BeginScan(directory, skip_existing, num_threads)
    /\ UNCHANGED last

\* worker_thread, "while not file_queue.empty()".
WorkerTest(t) ==
    /\ scanning
    /\ worker[t].pc = "test"
    /\ worker' = [worker EXCEPT ![t] = WorkerAt(IF file_queue = <<>> THEN "exit" ELSE "get")]
    /\ UNCHANGED <<disk, index, processed_data, scanning, file_queue,
                   out_file, last, upserted, steps, calls,
                   overall_pbar, batch, upserter>>

\* Faulty variant of WorkerGet: a get that is not atomic, so that the path
\* behind the one taken is lost from the queue.
WorkerGet_LosesNext(t) ==
    /\ scanning
    /\ worker[t].pc = "get"
    /\ IF file_queue = <<>>
       THEN /\ worker' = [worker EXCEPT ![t] = WorkerAt("exit")]
            /\ UNCHANGED file_queue
       ELSE /\ worker' = [worker EXCEPT ![t] = [pc |-> "file", file |-> Head(file_queue)]]
            /\ file_queue' = IF Len(file_queue) > 1 THEN Tail(Tail(file_queue))
                             ELSE Tail(file_queue)
    /\ UNCHANGED <<disk, index, processed_data, scanning,
                   out_file, last, upserted, steps, calls,
                   overall_pbar, batch, upserter>>

\* Faulty variant of WorkerGet, "file_queue.get()": on an empty queue the
\* worker waits for a path.
WorkerGet_Blocking(t) ==
    /\ scanning
    /\ worker[t].pc = "get"
    /\ file_queue # <<>>
    /\ worker' = [worker EXCEPT ![t] = [pc |-> "file", file |-> Head(file_queue)]]
    /\ file_queue' = Tail(file_queue)
    /\ UNCHANGED <<disk, index, processed_data, scanning,
                   out_file, last, upserted, steps, calls,
                   overall_pbar, batch, upserter>>

\* worker_thread, "file_queue.get_nowait()": on an empty queue it raises and
\* the loop is left.
WorkerGet(t) ==
    /\ scanning
    /\ worker[t].pc = "get"
    /\ IF file_queue = <<>>
       THEN /\ worker' = [worker EXCEPT ![t] = WorkerAt("exit")]
            /\ UNCHANGED file_queue
       ELSE /\ worker' = [worker EXCEPT ![t] = [pc |-> "file", file |-> Head(file_queue)]]
            /\ file_queue' = Tail(file_queue)
    /\ UNCHANGED <<disk, index, processed_data, scanning,
                   out_file, last, upserted, steps, calls,
                   overall_pbar, batch, upserter>>

\* Faulty variant of WorkerProcess: the check for a missing file is left out and
\* no exception is caught, so that a missing file ends the thread.
WorkerProcess_Dies(t) ==
    /\ scanning
    /\ worker[t].pc = "file"
    /\ IF Exists(disk, Resolve(worker[t].file))
       THEN /\ processed_data' = Append(processed_data, HashFile(disk, worker[t].file))
            /\ worker' = [worker EXCEPT ![t] = WorkerAt("test")]
            /\ overall_pbar' = overall_pbar + 1
       ELSE /\ worker' = [worker EXCEPT ![t] = WorkerAt("exit")]
            /\ UNCHANGED <<processed_data, overall_pbar>>
    /\ UNCHANGED <<disk, index, scanning, file_queue,
                   out_file, last, upserted, steps, calls,
                   batch, upserter>>

\* worker_thread, the body of the loop for one file: a file that does not
\* exist (any more) gives no result, any other is hashed and its result
\* appended to processed_data under the lock.
WorkerProcess(t) ==
    /\ scanning
    /\ worker[t].pc = "file"
    /\ processed_data' =
          IF Exists(disk, Resolve(worker[t].file))
          THEN Append(processed_data, HashFile(disk, worker[t].file))
          ELSE processed_data
    /\ worker' = [worker EXCEPT ![t] = WorkerAt("test")]
    /\ overall_pbar' = overall_pbar + 1
    /\ UNCHANGED <<disk, index, scanning, file_queue,
                   out_file, last, upserted, steps, calls,
                   batch, upserter>>

\* main after the joins: the one batch insert of processed_data.
EndScan ==
    /\ scanning
    /\ \A t \in Threads : worker[t].pc \in {"off", "exit"}
    /\ index' = IF processed_data # <<>>
                THEN insert_data_batch(index, processed_data)
                ELSE index
    /\ upserted' = NoteUpserts(upserted, processed_data)
    /\ scanning' = FALSE
    /\ worker' = [t \in Threads |-> WorkerAt("off")]
    /\ UNCHANGED <<disk, processed_data, file_queue, out_file, steps, calls,
                   overall_pbar, batch, upserter>>

FinishScan ==
    /\ EndScan
    /\ UNCHANGED last

\* ------------------------------------------------------------------------
\* rescan_duplicates, remove_missing_files
\* ------------------------------------------------------------------------

\* The rows whose hash more than one row has.  (The query orders them by hash;
\* the rows have distinct paths and each is updated in place, so the order of
\* the updates changes no result.)
DuplicateRows(idx) ==
    LET Shared(r) == \E i \in 1 .. Len(idx) : idx[i].hash = r.hash /\ idx[i].path # r.path
    IN  SelectSeq(idx, Shared)

\* The results process_file gives for the rows, those of missing files left out.
RECURSIVE RescanData(_, _)
RescanData(d, rows) ==
    IF rows = <<>> THEN <<>>
    ELSE process_file(d, Head(rows).path) \o RescanData(d, Tail(rows))

RECURSIVE InsertEach(_, _)
InsertEach(idx, data_list) ==
    IF data_list = <<>> THEN idx
    ELSE InsertEach(insert_data(idx, Head(data_list)), Tail(data_list))

rescan_duplicates(idx, d) == InsertEach(idx, RescanData(d, DuplicateRows(idx)))

RescanDuplicates ==
    /\ ~scanning
    /\ steps < MaxSteps
    /\ index' = rescan_duplicates(index, disk)
    /\ upserted' = NoteUpserts(upserted, RescanData(disk, DuplicateRows(index)))
    /\ steps' = steps + 1
    /\ UNCHANGED <<disk, processed_data, scanning, file_queue, worker,
                   out_file, last, calls,
                   overall_pbar, batch, upserter>>

\* remove_missing_files: the rows of the paths that do not exist are deleted.
remove_missing_files(idx, d) ==
    LET OnDisk(r) == Exists(d, r.path)
    IN  SelectSeq(idx, OnDisk)

RemoveMissingFiles ==
    /\ ~scanning
    /\ steps < MaxSteps
    /\ index' = remove_missing_files(index, disk)
    /\ steps' = steps + 1
    /\ UNCHANGED <<disk, processed_data, scanning, file_queue, worker,
                   out_file, last, upserted, calls,
                   overall_pbar, batch, upserter>>

\* ------------------------------------------------------------------------
\* The filesystem outside the program
\* ------------------------------------------------------------------------

\* Some other process writes a file of the tree, or removes one.
FsWrite(p, c) ==
    /\ steps < MaxSteps
    /\ disk[p] # c
    /\ disk' = [disk EXCEPT ![p] = c]
    /\ steps' = steps + 1
    /\ UNCHANGED <<index, processed_data, scanning, file_queue, worker,
                   out_file, last, upserted, calls,
                   overall_pbar, batch, upserter>>

FsRemove(p) ==
    /\ steps < MaxSteps
    /\ disk[p] # NoFile
    /\ disk' = [disk EXCEPT ![p] = NoFile]
    /\ steps' = steps + 1
    /\ UNCHANGED <<index, processed_data, scanning, file_queue, worker,
                   out_file, last, upserted, calls,
                   overall_pbar, batch, upserter>>

\* ------------------------------------------------------------------------
\* delete_duplicates
\* ------------------------------------------------------------------------

\* Whether the name csv is bound in the module's namespace: "import csv" is
\* a statement of list_duplicates_csv's body only, so in delete_duplicates
\* csv.DictWriter raises NameError, which its "except Exception" catches.
CsvIsImported == FALSE

\* The log file a caller may name.
LogName == <<"l", "o", "g">>

\* The rows a csv file starts with.
CsvHeader == << [status |-> "status", path |-> <<>>, hash |-> "hash"] >>

LogRow(status, p, h) == [status |-> status, path |-> p, hash |-> h]

\* The duplicates of a group that lie within within_directory (normalised).
InScopeDuplicates(group, wd) ==
    LET InScope(info) == Within(info.path, wd)
    IN  SelectSeq(group.duplicates, InScope)

\* os.remove(p) removes an existing file and raises for a missing one.
RemoveSucceeds(d, p) == Exists(d, p)

\* Faulty variant of RemoveCalls: the original of a group is removed with its
\* duplicates.
RECURSIVE RemoveCalls_WholeGroup(_, _)
RemoveCalls_WholeGroup(groups, wd) ==
    IF groups = <<>> THEN <<>>
    ELSE LET dups == InScopeDuplicates(Head(groups), wd)
         IN  <<Head(groups).original.path>>
             \o [i \in 1 .. Len(dups) |-> dups[i].path]
             \o RemoveCalls_WholeGroup(Tail(groups), wd)

\* The paths handed to os.remove, in order.
RECURSIVE RemoveCalls(_, _)
RemoveCalls(groups, wd) ==
    IF groups = <<>> THEN <<>>
    ELSE LET dups == InScopeDuplicates(Head(groups), wd)
         IN  [i \in 1 .. Len(dups) |-> dups[i].path] \o RemoveCalls(Tail(groups), wd)

\* The rows written for the duplicates of one group.
DuplicateLogRows(dups, h, d, simulate_delete) ==
    [i \in 1 .. Len(dups) |->
        LogRow(IF simulate_delete THEN "deleted (simulated)"
               ELSE IF RemoveSucceeds(d, dups[i].path) THEN "deleted"
               ELSE "error - ",
               dups[i].path, h)]

\* The rows of a run: per group the kept original, then its duplicates.
RECURSIVE LogRows(_, _, _, _)
LogRows(groups, wd, d, simulate_delete) ==
    IF groups = <<>> THEN <<>>
    ELSE LET g == Head(groups)
         IN  << LogRow(IF g.no_matching_original THEN "kept - no matching original"
                       ELSE "kept",
                       g.original.path, g.hash) >>
             \o DuplicateLogRows(InScopeDuplicates(g, wd), g.hash, d, simulate_delete)
             \o LogRows(Tail(groups), wd, d, simulate_delete)

\* Faulty variant of Removals: a simulated run removes as a real one does.
Removals_IgnoreSimulate(groups, wd, simulate_delete) == RemoveCalls(groups, wd)

\* The paths a run hands to os.remove: none when the deletion is simulated.
Removals(groups, wd, simulate_delete) ==
    IF simulate_delete THEN <<>> ELSE RemoveCalls(groups, wd)

\* Faulty variant of Refused: an output file that exists is overwritten.
Refused_Never(output_file, file_exists, overwrite, append) == FALSE

\* The call is refused: the output file exists and neither overwrite nor
\* append was chosen.
Refused(output_file, file_exists, overwrite, append) ==
    output_file # Empty /\ file_exists /\ ~overwrite /\ ~append

\* Faulty variant of Removed: the run stops at the first removal that fails.
Removed_StopAtError(d, removals) ==
    {removals[i] : i \in {j \in DOMAIN removals :
                             \A k \in 1 .. j : RemoveSucceeds(d, removals[k])}}

\* The files a run removes: those handed to os.remove whose removal succeeds;
\* a removal that raises is caught and the loop goes on.
Removed(d, removals) == {p \in Range(removals) : RemoveSucceeds(d, p)}

NoCall ==
    [op |-> "none", directory |-> Empty, skip_existing |-> FALSE, scanned |-> <<>>,
     queued |-> <<>>, processed_before |-> 0, written |-> <<>>, failed |-> {},
     given |-> <<>>, rejected |-> Empty, seen |-> {}, writes |-> <<>>,
     preferred |-> Empty, within |-> Empty, simulate |-> FALSE,
     output |-> Empty, overwrite |-> FALSE, append |-> FALSE,
     aborted |-> FALSE, groups |-> <<>>, remove_calls |-> <<>>, decisions |-> <<>>,
     returned |-> None, reported |-> 0, index_before |-> <<>>, disk_before |-> [p \in Paths |-> NoFile],
     out_before |-> NoFile]

\* delete_duplicates.  It has no return statement with a value: it returns None.
DeleteDuplicates(preferred_source_directories, output_file, overwrite, append, simulate_delete, within_directory) ==
    LET duplicates_list ==
            get_duplicates(index, preferred_source_directories, within_directory)
        wd == NormWithin(within_directory)
        file_exists == out_file # NoFile
        refused == Refused(output_file, file_exists, overwrite, append)
        file_mode == IF file_exists /\ ~overwrite /\ append THEN "a" ELSE "w"
        opened == IF file_mode = "w" THEN <<>> ELSE out_file
        writer == output_file # Empty /\ CsvIsImported
        removals == Removals(duplicates_list, wd, simulate_delete)
        removed == Removed(disk, removals)
    IN  /\ ~scanning
        /\ calls < MaxCalls
        /\ IF refused
           THEN UNCHANGED <<disk, out_file>>
           ELSE /\ disk' = [p \in Paths |-> IF p \in removed THEN NoFile ELSE disk[p]]
                /\ out_file' =
                      IF output_file = Empty THEN out_file
                      ELSE IF ~writer THEN opened
                      ELSE (IF opened = <<>> THEN CsvHeader ELSE opened)
                           \o LogRows(duplicates_list, wd, disk, simulate_delete)
        /\ last' = [op |-> "delete",
                    preferred |-> preferred_source_directories,
                    within |-> within_directory,
                    simulate |-> simulate_delete,
                    directory |-> Empty,
                    skip_existing |-> FALSE,
                    scanned |-> <<>>,
                    queued |-> <<>>,
                    processed_before |-> 0,
                    written |-> <<>>,
                    failed |-> {},
                    given |-> <<>>,
                    rejected |-> Empty,
                    seen |-> {},
                    writes |-> <<>>,
                    output |-> output_file,
                    overwrite |-> overwrite,
                    append |-> append,
                    aborted |-> refused,
                    decisions |-> IF refused THEN <<>>
                                  ELSE LogRows(duplicates_list, wd, disk, simulate_delete),
                    groups |-> duplicates_list,
                    remove_calls |-> IF refused THEN <<>> ELSE removals,
                    returned |-> None,
                    reported |-> 0,
                    index_before |-> index,
                    disk_before |-> disk,
                    out_before |-> out_file]
        /\ calls' = calls + 1
        /\ UNCHANGED <<index, processed_data, scanning, file_queue,
                       worker, upserted, steps,
                   overall_pbar, batch, upserter>>

\* The start of a scan whose arguments, and the index and the tree it began
\* with, are kept in last.
StartNotedScan(directory, skip_existing, num_threads) ==
    /\ steps < MaxScans
    /\ BeginScan(directory, skip_existing, num_threads)
    /\ last' = [NoCall EXCEPT
                  !.op = "scan",
                  !.directory = directory,
                  !.scanned = Append(last.scanned, directory),
                  !.queued = file_queue',
                  !.processed_before = Len(processed_data),
                  !.skip_existing = skip_existing,
                  !.index_before = index,
                  !.disk_before = disk,
                  !.out_before = out_file]

\* The end of a noted scan: what its batch insert was given is noted.
FinishNotedScan ==
    /\ EndScan
    /\ last' = [last EXCEPT !.written = processed_data]

\* worker_thread, the body of the loop for a file that exists and whose stat,
\* open or read raises: the exception is caught, no result is appended, the
\* progress bar is updated and the loop goes on.  The path is noted.
WorkerFail(t) ==
    /\ scanning
    /\ worker[t].pc = "file"
    /\ Exists(disk, Resolve(worker[t].file))
    /\ worker' = [worker EXCEPT ![t] = WorkerAt("test")]
    /\ overall_pbar' = overall_pbar + 1
    /\ last' = [last EXCEPT !.failed = @ \cup {Resolve(worker[t].file)}]
    /\ UNCHANGED <<disk, index, processed_data, scanning, file_queue,
                   out_file, upserted, steps, calls, batch, upserter>>

\* main after the joins, up to the start of the transaction of
\* insert_data_batch: with no results there is no batch insert and the scan is
\* over; else the connection is opened and the list it was given is noted.
BatchBegin ==
    /\ scanning
    /\ batch.pc = "idle"
    /\ \A t \in Threads : worker[t].pc \in {"off", "exit"}
    /\ IF processed_data = <<>>
       THEN /\ scanning' = FALSE
            /\ worker' = [t \in Threads |-> WorkerAt("off")]
            /\ UNCHANGED <<batch, last>>
       ELSE /\ batch' = [pc |-> "exec", view |-> index, rest |-> processed_data]
            /\ last' = [last EXCEPT !.given = processed_data]
            /\ UNCHANGED <<scanning, worker>>
    /\ UNCHANGED <<disk, index, processed_data, file_queue, out_file,
                   upserted, steps, calls, overall_pbar, upserter>>

\* Faulty variant of BatchExecute: the connection commits after every row.
BatchExecute_Autocommit(storage_rejects) ==
    /\ batch.pc = "exec"
    /\ batch.rest # <<>>
    /\ ~storage_rejects
    /\ batch' = [batch EXCEPT !.view = InsertOrReplace(batch.view, Head(batch.rest)),
                              !.rest = Tail(batch.rest)]
    /\ index' = InsertOrReplace(batch.view, Head(batch.rest))
    /\ UNCHANGED <<disk, processed_data, scanning, file_queue, worker, out_file,
                   last, upserted, steps, calls, overall_pbar, upserter>>

\* insert_data_batch, executemany for one row of the list.  The row is written
\* inside the connection's transaction, where no other connection sees it.
\* When the storage layer rejects the row, executemany raises: the except
\* branch prints, the connection is closed without a commit, which rolls the
\* transaction back, and main goes on to its end.
BatchExecute(storage_rejects) ==
    /\ batch.pc = "exec"
    /\ batch.rest # <<>>
    /\ IF storage_rejects
       THEN /\ batch' = NoBatch
            /\ scanning' = FALSE
            /\ worker' = [t \in Threads |-> WorkerAt("off")]
            /\ last' = [last EXCEPT !.rejected = Head(batch.rest)[2]]
       ELSE /\ batch' = [batch EXCEPT
                            !.view = InsertOrReplace(batch.view, Head(batch.rest)),
                            !.rest = Tail(batch.rest)]
            /\ UNCHANGED <<scanning, worker, last>>
    /\ UNCHANGED <<disk, index, processed_data, file_queue, out_file,
                   upserted, steps, calls, overall_pbar, upserter>>

\* insert_data_batch, conn.commit(): the rows of the transaction become the
\* table; then main ends.
BatchCommit ==
    /\ batch.pc = "exec"
    /\ batch.rest = <<>>
    /\ index' = batch.view
    /\ upserted' = NoteUpserts(upserted, last.given)
    /\ batch' = NoBatch
    /\ scanning' = FALSE
    /\ worker' = [t \in Threads |-> WorkerAt("off")]
    /\ last' = [last EXCEPT !.written = last.given]
    /\ UNCHANGED <<disk, processed_data, file_queue, out_file,
                   steps, calls, overall_pbar, upserter>>

\* The SELECT of a get_duplicates that another process runs beside the scan:
\* it reads the table as committed; what it read is noted.
ConcurrentQuery ==
    /\ last.op = "scan"
    /\ last' = [last EXCEPT !.seen = @ \cup {index}]
    /\ UNCHANGED <<disk, index, processed_data, scanning, file_queue, worker,
                   out_file, upserted, steps, calls, overall_pbar, batch, upserter>>

\* A caller enters insert_data with a record.
UpsertCall(c, data) ==
    /\ ~scanning
    /\ upserter[c].pc = "idle"
    /\ upserter' = [upserter EXCEPT ![c] = [pc |-> "select", data |-> data,
                                            existing_file |-> 0]]
    /\ last' = [last EXCEPT !.op = "upsert"]
    /\ UNCHANGED <<disk, index, processed_data, scanning, file_queue, worker,
                   out_file, upserted, steps, calls, overall_pbar, batch>>

\* insert_data, "SELECT id FROM files WHERE path = ?": the id of the path's
\* row, here its place in the table, or 0 for no row.
UpsertSelect(c) ==
    /\ upserter[c].pc = "select"
    /\ upserter' = [upserter EXCEPT
                       ![c].pc = "write",
                       ![c].existing_file =
                           IF upserter[c].data[2] \in IndexPaths(index)
                           THEN RowIndexOf(index, upserter[c].data[2]) ELSE 0]
    /\ UNCHANGED <<disk, index, processed_data, scanning, file_queue, worker,
                   out_file, last, upserted, steps, calls, overall_pbar, batch>>

\* insert_data, the write and its commit: with an id, UPDATE ... WHERE id = ?;
\* with none, INSERT, which the UNIQUE constraint on path refuses when the path
\* has a row by now: the sqlite3.Error is caught and printed, nothing is
\* written.  Each write is noted, and whether it was stored.
UpsertWrite(c) ==
    /\ upserter[c].pc = "write"
    /\ LET data == upserter[c].data
           id == upserter[c].existing_file
           refused == id = 0 /\ data[2] \in IndexPaths(index)
       IN  /\ index' =
                 IF id # 0
                 THEN [index EXCEPT ![id] = Row(data[1], index[id].path, data[3])]
                 ELSE IF refused THEN index
                 ELSE Append(index, Row(data[1], data[2], data[3]))
           /\ last' = [last EXCEPT !.writes = Append(@, [caller |-> c, data |-> data,
                                                         stored |-> ~refused])]
    /\ upserter' = [upserter EXCEPT ![c].pc = "done"]
    /\ UNCHANGED <<disk, processed_data, scanning, file_queue, worker,
                   out_file, upserted, steps, calls, overall_pbar, batch>>

\* A call of get_duplicates; its result is kept in last.
GetDuplicates(preferred_source_directories, within_directory) ==
    /\ ~scanning
    /\ calls < MaxCalls
    /\ last' = [NoCall EXCEPT
                  !.op = "get",
                  !.preferred = preferred_source_directories,
                  !.within = within_directory,
                  !.groups = get_duplicates(index, preferred_source_directories,
                                            within_directory),
                  !.index_before = index,
                  !.disk_before = disk,
                  !.out_before = out_file]
    /\ calls' = calls + 1
    /\ UNCHANGED <<disk, index, processed_data, scanning, file_queue,
                   worker, out_file, upserted, steps,
                   overall_pbar, batch, upserter>>

\* Faulty variant of total_removed: the rows that were looked at are counted.
total_removed_AllRows(idx, d) == Len(idx)

\* What remove_missing_files prints as "Total entries removed from database":
\* the number of paths it marked for removal.
total_removed(idx, d) ==
    LET Missing(r) == ~Exists(d, r.path)
    IN  Len(SelectSeq(idx, Missing))

\* A run of remove_missing_files whose count, and the index and the tree it
\* began with, are noted.
NotedRemoveMissingFiles ==
    /\ ~scanning
    /\ calls < MaxCalls
    /\ index' = remove_missing_files(index, disk)
    /\ last' = [NoCall EXCEPT !.op = "clean",
                             !.reported = total_removed(index, disk),
                             !.index_before = index,
                             !.disk_before = disk,
                             !.out_before = out_file]
    /\ calls' = calls + 1
    /\ UNCHANGED <<disk, processed_data, scanning, file_queue, worker,
                   out_file, upserted, steps,
                   overall_pbar, batch, upserter>>

\* A run of rescan_duplicates whose index and tree at the start are noted.
NotedRescanDuplicates ==
    /\ ~scanning
    /\ calls < MaxCalls
    /\ index' = rescan_duplicates(index, disk)
    /\ upserted' = NoteUpserts(upserted, RescanData(disk, DuplicateRows(index)))
    /\ last' = [NoCall EXCEPT !.op = "rescan",
                             !.index_before = index,
                             !.disk_before = disk,
                             !.out_before = out_file]
    /\ calls' = calls + 1
    /\ UNCHANGED <<disk, processed_data, scanning, file_queue, worker,
                   out_file, steps,
                   overall_pbar, batch, upserter>>

\* ------------------------------------------------------------------------
\* Inputs and specifications
\* ------------------------------------------------------------------------

Disks == [Paths -> Contents \cup {NoFile}]

\* The content with a given digest.
ContentOf(h) == CHOOSE c \in Contents : Digest(c) = h

\* The states the table "files" can be in with at most MaxRows rows: any
\* rows of distinct paths in any rowid order, each with the hash and size of
\* some content.
Indexes ==
    UNION {{[i \in 1 .. n |-> Row(f[i][2], f[i][1], Size(ContentOf(f[i][2])))] :
               f \in {g \in [1 .. n -> Paths \X Hashes] :
                          \A i, j \in 1 .. n : i # j => g[i][1] # g[j][1]}} :
           n \in 0 .. MaxRows}

\* The hash the index holds for a path.
HashOf(idx, p) == idx[RowIndexOf(idx, p)].hash

\* The tree a scan found the index in: the indexed files, with the contents
\* that were hashed.
FreshDisk(idx) ==
    [p \in Paths |-> IF p \in IndexPaths(idx) THEN ContentOf(HashOf(idx, p)) ELSE NoFile]

InitCommon ==
    /\ processed_data = <<>>
    /\ scanning = FALSE
    /\ file_queue = <<>>
    /\ worker = [t \in Threads |-> WorkerAt("off")]
    /\ last = NoCall
    /\ upserted = [p \in Paths |-> None]
    /\ steps = 0
    /\ calls = 0
    /\ overall_pbar = 0
    /\ batch = NoBatch
    /\ upserter = [c \in Callers |-> IdleCaller]

\* The program after create_db_and_table, beside a tree of files.
Init ==
    /\ disk \in [Paths -> Contents]
    /\ index = <<>>
    /\ out_file = NoFile
    /\ InitCommon

Scan ==
    \/ \E directory \in ScanDirs, skip_existing \in BOOLEAN, num_threads \in Threads :
          StartScan(directory, skip_existing, num_threads)
    \/ \E t \in Threads : WorkerTest(t)
    \/ \E t \in Threads : WorkerGet(t)
    \/ \E t \in Threads : WorkerProcess(t)
    \/ FinishScan

Maintenance ==
    \/ RescanDuplicates
    \/ RemoveMissingFiles

Filesystem ==
    \/ \E p \in Paths, c \in Contents : FsWrite(p, c)
    \/ \E p \in Paths : FsRemove(p)

Next == Scan \/ Maintenance \/ Filesystem

\* Scans, maintenance runs and filesystem events, in any order.
Spec == Init /\ [][Next]_vars

\* get_duplicates called on any state of the index.
InitResolve ==
    /\ index \in Indexes
    /\ disk = FreshDisk(index)
    /\ out_file = NoFile
    /\ InitCommon

NextResolve ==
    \E preferred \in PrefLists, within \in WithinDirs : GetDuplicates(preferred, within)

SpecResolve == InitResolve /\ [][NextResolve]_vars

\* Scans of a tree that nothing else changes, and a listing of the duplicates
\* (list_duplicates_excluding_original without arguments).
NotedScan ==
    \/ \E directory \in ScanDirs, skip_existing \in BOOLEAN, num_threads \in Threads :
          StartNotedScan(directory, skip_existing, num_threads)
    \/ \E t \in Threads : WorkerTest(t)
    \/ \E t \in Threads : WorkerGet(t)
    \/ \E t \in Threads : WorkerProcess(t)
    \/ FinishNotedScan

NextScan == NotedScan \/ GetDuplicates(Empty, Empty)

SpecScan == Init /\ [][NextScan]_vars

\* The scheduling of a scan: a thread that can take a step takes it in the
\* end, and so does main once its joins can return.
ScanFairness ==
    /\ \A t \in Threads : WF_vars(WorkerTest(t))
    /\ \A t \in Threads : WF_vars(WorkerGet(t))
    /\ \A t \in Threads : WF_vars(WorkerProcess(t))
    /\ WF_vars(FinishNotedScan)

\* The first scan of a process, of a tree whose files all have the same
\* content, under fair scheduling.
InitOneScan ==
    /\ disk = [p \in Paths |-> ContentOf(Digest("11111"))]
    /\ index = <<>>
    /\ out_file = NoFile
    /\ InitCommon

NextOneScan ==
    \/ \E directory \in ScanDirs, num_threads \in Threads :
          steps = 0 /\ StartNotedScan(directory, FALSE, num_threads)
    \/ \E t \in Threads : WorkerTest(t)
    \/ \E t \in Threads : WorkerGet(t)
    \/ \E t \in Threads : WorkerProcess(t)
    \/ FinishNotedScan

\* One scan during which files are removed by others and reads fail.
NextVanish ==
    \/ \E directory \in ScanDirs, num_threads \in Threads :
          last.op = "none" /\ StartNotedScan(directory, FALSE, num_threads)
    \/ \E t \in Threads : WorkerTest(t)
    \/ \E t \in Threads : WorkerGet(t)
    \/ \E t \in Threads : WorkerProcess(t)
    \/ \E t \in Threads : WorkerFail(t)
    \/ FinishNotedScan
    \/ \E p \in Paths : FsRemove(p)

SpecVanish == Init /\ [][NextVanish]_vars

\* One scan whose batch insert runs row by row, beside a process that queries
\* the index, on a storage layer that may reject a row.
NextCommit ==
    \/ \E directory \in ScanDirs, num_threads \in Threads :
          last.op = "none" /\ StartNotedScan(directory, FALSE, num_threads)
    \/ \E t \in Threads : WorkerTest(t)
    \/ \E t \in Threads : WorkerGet(t)
    \/ \E t \in Threads : WorkerProcess(t)
    \/ BatchBegin
    \/ \E storage_rejects \in BOOLEAN : BatchExecute(storage_rejects)
    \/ BatchCommit
    \/ ConcurrentQuery

SpecCommit == Init /\ [][NextCommit]_vars

\* The records callers pass to insert_data.
UpsertData == {<<h, p, Size(ContentOf(h))>> : h \in Hashes, p \in {pA, pB}}

\* Callers of insert_data side by side, on any state of the index.
InitUpsert ==
    /\ index \in Indexes
    /\ disk = FreshDisk(index)
    /\ out_file = NoFile
    /\ InitCommon

NextUpsert ==
    \/ \E c \in Callers, data \in UpsertData : UpsertCall(c, data)
    \/ \E c \in Callers : UpsertSelect(c)
    \/ \E c \in Callers : UpsertWrite(c)

SpecUpsert == InitUpsert /\ [][NextUpsert]_vars

FairSpecScan == InitOneScan /\ [][NextOneScan]_vars /\ ScanFairness

\* The trees that hold the indexed files with the contents that were hashed,
\* or have lost some of them since.
StaleDisks(idx) == {d \in Disks : \A p \in Paths : d[p] \in {FreshDisk(idx)[p], NoFile}}

\* delete_duplicates called on any state of the index: beside a tree that holds
\* the indexed files or has lost some of them since the scan, or with a log
\* file that exists already.
InitDelete ==
    /\ index \in Indexes
    /\ \/ /\ disk \in StaleDisks(index)
          /\ out_file = NoFile
       \/ /\ disk = FreshDisk(index)
          /\ out_file = CsvHeader
    /\ InitCommon

\* (output_file, overwrite, append) as a caller passes them.
OutputArgs == {<<Empty, FALSE, FALSE>>} \cup ({LogName} \X BOOLEAN \X BOOLEAN)

NextDelete ==
    \E preferred \in DeletePrefLists, within \in DeleteWithinDirs,
       simulate_delete \in BOOLEAN, out \in OutputArgs :
        DeleteDuplicates(preferred, out[1], out[2], out[3], simulate_delete, within)

SpecDelete == InitDelete /\ [][NextDelete]_vars

\* A maintenance run on any state of the index, beside any tree: indexed
\* files may have gone or changed, other files may have appeared.
InitMaintain ==
    /\ index \in Indexes
    /\ disk \in Disks
    /\ out_file = NoFile
    /\ InitCommon

NextMaintain ==
    \/ NotedRemoveMissingFiles
    \/ NotedRescanDuplicates

SpecMaintain == InitMaintain /\ [][NextMaintain]_vars

\* ------------------------------------------------------------------------
\* Properties of get_duplicates
\* ------------------------------------------------------------------------

\* The groups of the last call, as a set.
LastGroups == Range(last.groups)

\* The entries of a group: its original and its duplicates.
Entries(g) == {g.original} \cup Range(g.duplicates)

\* The paths of a group.
Members(g) == {info.path : info \in Entries(g)}

\* The paths the index holds under a hash.
PathsWithHash(idx, h) == {idx[i].path : i \in {j \in 1 .. Len(idx) : idx[j].hash = h}}

\* The withinDir filter: the normalised absolute directory is a prefix of the
\* path as a string; no directory means no filter.
PassesFilter(p, D) == D = Empty \/ StartsWith(p, normpath(abspath(D)))

\* The paths under a hash that pass the withinDir filter.
InScopePaths(idx, h, D) == {p \in PathsWithHash(idx, h) : PassesFilter(p, D)}

\* A path is located under a directory: below it in the tree.
UnderDir(p, D) == StartsWith(p, normpath(abspath(D)) \o <<SLASH>>)

\* A listed directory, as listed, is an ancestor of a path.
ListedAncestor(dir, p) == StartsWith(p, dir \o <<SLASH>>)

C8_OneGroupPerSharedHash ==
    (last.op = "get" /\ last.within = Empty) =>
        /\ \A h \in Hashes :
              Cardinality({i \in DOMAIN last.groups : last.groups[i].hash = h})
                  = IF Cardinality(PathsWithHash(last.index_before, h)) >= 2 THEN 1 ELSE 0
        /\ \A g \in LastGroups :
              /\ Members(g) = PathsWithHash(last.index_before, g.hash)
              /\ 1 + Len(g.duplicates) = Cardinality(Members(g))

\* A call without directory on an index with a shared hash and a hash of one
\* row: one group, and the row of the unique hash is in none.
C8_Witness ==
    /\ last.op = "get"
    /\ last.within = Empty
    /\ Len(last.groups) = 1
    /\ \E i \in DOMAIN last.index_before :
          /\ PathsWithHash(last.index_before, last.index_before[i].hash)
                = {last.index_before[i].path}
          /\ \A g \in LastGroups : last.index_before[i].path \notin Members(g)

FolderDepth(p) == Cardinality({i \in DOMAIN p : p[i] = SLASH})

\* A member of the group lies under a directory of the preference list.
SomeMemberListed(g) ==
    \E p \in Members(g) : \E i \in DOMAIN last.preferred :
        ListedAncestor(last.preferred[i], p)

\* p comes before q under the default rule: fewer folders, or as many and a
\* shorter path.
DefaultBefore(p, q) ==
    \/ FolderDepth(p) < FolderDepth(q)
    \/ FolderDepth(p) = FolderDepth(q) /\ Len(p) < Len(q)

C12_DefaultRuleDepthThenLength ==
    last.op = "get" =>
        \A g \in LastGroups :
            (last.preferred = Empty \/ ~SomeMemberListed(g)) =>
                /\ \A p \in Members(g) :
                      /\ FolderDepth(g.original.path) <= FolderDepth(p)
                      /\ FolderDepth(g.original.path) = FolderDepth(p)
                            => Len(g.original.path) <= Len(p)
                /\ \A i \in DOMAIN g.duplicates :
                      ~DefaultBefore(g.duplicates[i].path, g.original.path)

\* No preference list and copies /w/a/s/f (deeper), /w/a0/f (longer) and
\* /w/a/f, the deeper one first in the index: the original is /w/a/f.
C12_Witness ==
    /\ last.op = "get"
    /\ last.preferred = Empty
    /\ last.index_before # <<>>
    /\ last.index_before[1].path = pAS
    /\ \E g \in LastGroups : Members(g) = {pA, pAS, pA0} /\ g.original.path = pA

\* C13: after one scan of the tree from an empty index, with 1 or 2 worker
\* threads, a group that holds /w/a/f and /w/b/f (same folder depth, same path
\* length) has the alphabetically first of them, /w/a/f, as its original and
\* /w/b/f among its duplicates.
C13_AlphabeticallyFirstOnTie ==
    (last.op = "get" /\ steps = 1) =>
        \A g \in LastGroups :
            {pA, pB} \subseteq Members(g) =>
                /\ g.original.path = pA
                /\ \E i \in DOMAIN g.duplicates : g.duplicates[i].path = pB

\* The hash and the original of every group.
OriginalsOf(groups) == {<<g.hash, g.original.path>> : g \in Range(groups)}

\* The records of an index, as a set.
RecordsOf(idx) == {<<idx[i].hash, idx[i].path>> : i \in DOMAIN idx}

\* C14: two indexes that hold the same set of (hash, path) records, a record
\* for every file of the tree, each built by a scan of the whole tree (the one
\* the last scan began with and the one it left), give the same original for
\* every group, whatever order the worker threads finished in.
C14_SameRecordsSameOriginals ==
    (/\ last.op = "scan" /\ ~scanning
     /\ last.directory = <<".">> /\ ~last.skip_existing
     /\ IndexPaths(last.index_before) = Paths
     /\ RecordsOf(index) = RecordsOf(last.index_before)) =>
        OriginalsOf(get_duplicates(index, Empty, Empty))
            = OriginalsOf(get_duplicates(last.index_before, Empty, Empty))

\* ------------------------------------------------------------------------
\* Properties of delete_duplicates
\* ------------------------------------------------------------------------

\* The last call was a run of delete_duplicates that was not refused for an
\* output file that exists.
DeleteRan == last.op = "delete" /\ ~last.aborted

\* The run began on a freshly scanned tree: every indexed file existed with
\* the content that was hashed.
OnFreshTree == last.disk_before = FreshDisk(last.index_before)

\* A path is in the scope of the last call.
InLastScope(p) == last.within = Empty \/ UnderDir(p, last.within)

\* C1: after a run of delete_duplicates with simulate = false on a freshly
\* scanned tree the original of every group still exists, every duplicate in
\* scope is gone, and no original was handed to os.remove.
C1_OriginalsKeptDuplicatesRemoved ==
    (DeleteRan /\ ~last.simulate /\ OnFreshTree) =>
        \A g \in LastGroups :
            /\ Exists(disk, g.original.path)
            /\ g.original.path \notin Range(last.remove_calls)
            /\ \A i \in DOMAIN g.duplicates :
                  InLastScope(g.duplicates[i].path) => ~Exists(disk, g.duplicates[i].path)

\* A real run on a fresh tree that found a group: its original is there and
\* a duplicate that existed is gone.
C1_Witness ==
    /\ DeleteRan /\ ~last.simulate /\ OnFreshTree
    /\ last.groups # <<>>
    /\ \A g \in LastGroups : Exists(disk, g.original.path)
    /\ \E g \in LastGroups : \E i \in DOMAIN g.duplicates :
          /\ Exists(last.disk_before, g.duplicates[i].path)
          /\ ~Exists(disk, g.duplicates[i].path)

\* C2: a run of delete_duplicates with simulate = true leaves every file of
\* the tree in place with its content, whatever the index, the preference list
\* and withinDir are.
C2_SimulateRemovesNothing ==
    (last.op = "delete" /\ last.simulate) => disk = last.disk_before

\* A simulated run over a group whose duplicate exists: a real run would have
\* removed it, and it is still there.
C2_Witness ==
    /\ DeleteRan /\ last.simulate
    /\ \E g \in LastGroups : \E i \in DOMAIN g.duplicates :
          /\ g.duplicates[i].path \in Range(RemoveCalls(last.groups, NormWithin(last.within)))
          /\ Exists(disk, g.duplicates[i].path)

\* C3: delete_duplicates returns the paths of the duplicates it acted on.
C3_ReturnsPathsActedOn ==
    DeleteRan =>
        /\ last.returned # None
        /\ \A g \in LastGroups : \A i \in DOMAIN g.duplicates :
              InLastScope(g.duplicates[i].path) => g.duplicates[i].path \in last.returned[1]

\* C4: with withinDir = D no path that is not located under D is in a group
\* get_duplicates returns, and delete_duplicates removes no such path.
C4_NothingOutsideWithinDir ==
    (last.op = "delete" /\ last.within # Empty) =>
        /\ \A g \in LastGroups : \A p \in Members(g) : UnderDir(p, last.within)
        /\ \A p \in Range(last.remove_calls) : UnderDir(p, last.within)

\* C5: with one preferred directory P, given absolute or relative to the
\* working directory, and one member of every group under P, a real run on a
\* fresh tree keeps the members under P and removes the copies elsewhere.
C5_PreferredDirectoryKept ==
    (/\ DeleteRan /\ ~last.simulate /\ OnFreshTree
     /\ last.within = Empty
     /\ Len(last.preferred) = 1
     /\ \A g \in LastGroups :
           Cardinality({p \in Members(g) : UnderDir(p, last.preferred[1])}) = 1) =>
        \A g \in LastGroups : \A p \in Members(g) :
            Exists(disk, p) <=> UnderDir(p, last.preferred[1])

\* The rows of the output file that are about a path and carry one of the
\* given statuses and the given hash.
RowsAbout(p, statuses, h) ==
    {i \in DOMAIN out_file : /\ out_file[i].path = p
                             /\ out_file[i].status \in statuses
                             /\ out_file[i].hash = h}

KeptStatuses == {"kept", "kept - no matching original"}

DuplicateStatuses == {"deleted", "deleted (simulated)", "error - "}

\* C15: after a run of delete_duplicates that was given an output file, the
\* file holds exactly one kept row per group and exactly one row per duplicate
\* in scope, each with the path and the hash, and every file the run removed
\* has a row.
C15_EveryDecisionLogged ==
    (DeleteRan /\ last.output # Empty) =>
        /\ out_file # NoFile
        /\ \A g \in LastGroups :
              /\ Cardinality(RowsAbout(g.original.path, KeptStatuses, g.hash)) = 1
              /\ \A i \in DOMAIN g.duplicates :
                    InLastScope(g.duplicates[i].path) =>
                        Cardinality(RowsAbout(g.duplicates[i].path,
                                              DuplicateStatuses, g.hash)) = 1
        /\ \A p \in Paths :
              (Exists(last.disk_before, p) /\ ~Exists(disk, p)) =>
                  \E i \in DOMAIN out_file : out_file[i].path = p

\* The decisions of the last run about a path.
DecisionsAbout(p) == {i \in DOMAIN last.decisions : last.decisions[i].path = p}

C17_RefusedRunChangesNothing ==
    (/\ last.op = "delete"
     /\ last.output # Empty
     /\ last.out_before # NoFile
     /\ ~last.overwrite /\ ~last.append) =>
        /\ disk = last.disk_before
        /\ out_file = last.out_before
        /\ index = last.index_before
        /\ last.remove_calls = <<>>

\* A refused call that had a duplicate to remove: real run, the duplicate on
\* disk and in scope.
C17_Witness ==
    /\ last.op = "delete" /\ last.output # Empty /\ last.out_before # NoFile
    /\ ~last.overwrite /\ ~last.append /\ ~last.simulate
    /\ \E g \in LastGroups : \E i \in DOMAIN g.duplicates :
          /\ InLastScope(g.duplicates[i].path)
          /\ Exists(disk, g.duplicates[i].path)

\* C30: after a run of delete_duplicates, on a tree that may have lost
\* indexed files since the scan, every group of which a member file existed
\* before the run still has a member file.
C30_LastCopySurvives ==
    DeleteRan =>
        \A g \in LastGroups :
            (\E p \in Members(g) : Exists(last.disk_before, p)) =>
                \E p \in Members(g) : Exists(disk, p)

\* ------------------------------------------------------------------------
\* Properties of the maintenance operations
\* ------------------------------------------------------------------------

\* The rows the last run removed from the index.
RowsRemoved == Range(last.index_before) \ Range(index)

\* C18: remove_missing_files deletes exactly the rows whose path does not
\* exist on disk and leaves every other row as it was, in its place; the count
\* it reports is the number of rows removed; afterwards neither the table nor
\* get_duplicates gives a removed path.
C18_MissingRowsRemovedAndCounted ==
    last.op = "clean" =>
        /\ \A r \in Range(last.index_before) :
              r \in Range(index) <=> Exists(last.disk_before, r.path)
        /\ Range(index) \subseteq Range(last.index_before)
        /\ \A i, j \in DOMAIN index :
              i < j => RowIndexOf(last.index_before, index[i].path)
                         < RowIndexOf(last.index_before, index[j].path)
        /\ last.reported = Cardinality(RowsRemoved)
        /\ \A r \in RowsRemoved :
              /\ r.path \notin IndexPaths(index)
              /\ \A g \in Range(get_duplicates(index, Empty, Empty)) :
                    r.path \notin Members(g)

\* One indexed file was deleted, another is still there: the run removed one
\* row, reported 1 and kept the other row.
C18_Witness ==
    /\ last.op = "clean"
    /\ last.reported = 1
    /\ Cardinality(RowsRemoved) = 1
    /\ index # <<>>

\* C19: after rescan_duplicates a member of a duplicate group whose file no
\* longer exists has no row, a member whose file exists has a row with the
\* digest of the file's content, and the rows outside duplicate groups are
\* as they were.
C19_RescanDropsMissingMembers ==
    last.op = "rescan" =>
        /\ \A r \in Range(DuplicateRows(last.index_before)) :
              IF Exists(last.disk_before, r.path)
              THEN /\ r.path \in IndexPaths(index)
                   /\ HashOf(index, r.path) = Digest(last.disk_before[r.path])
              ELSE r.path \notin IndexPaths(index)
        /\ \A r \in Range(last.index_before) \ Range(DuplicateRows(last.index_before)) :
              r \in Range(index)

\* ------------------------------------------------------------------------
\* Properties of a scan
\* ------------------------------------------------------------------------

\* The last operation was a scan that began with an empty index and is over.
FirstScanDone == last.op = "scan" /\ ~scanning /\ last.index_before = <<>>

\* C20: after a scan that began with an empty index, of a root whose files
\* did not change meanwhile, the index has one row for every file under the
\* root and no other row, and the hash of each row is the digest of the
\* file's content.
C20_ScanIndexesExactlyTheTree ==
    (FirstScanDone /\ disk = last.disk_before) =>
        /\ IndexPaths(index) = {p \in Paths : Exists(disk, p) /\ UnderDir(p, last.directory)}
        /\ Cardinality(IndexPaths(index)) = Len(index)
        /\ \A i \in DOMAIN index : index[i].hash = Digest(disk[index[i].path])

\* A scan of /w/a by two threads is over: its two files have rows, the one
\* that was queued second first, and the files beside /w/a have none.
C20_Witness ==
    /\ FirstScanDone
    /\ last.directory = dA
    /\ IndexPaths(index) = {pA, pAS}
    /\ index[1].path = pAS

\* The last operation was the second scan of the process, of the directory
\* the first scan was of, and it is over.
SameScanTwice ==
    /\ last.op = "scan" /\ ~scanning
    /\ Len(last.scanned) = 2
    /\ last.scanned[1] = last.scanned[2]

\* C21: after the second of two scans of the same unchanged directory the
\* index holds the rows it held after the first, with the same hash and size
\* for each path, none twice and none lost.
C21_SecondScanChangesNoRecord ==
    (SameScanTwice /\ disk = last.disk_before) =>
        /\ Range(index) = Range(last.index_before)
        /\ Len(index) = Len(last.index_before)
        /\ Cardinality(IndexPaths(index)) = Len(index)

\* The whole tree was scanned twice, and the second scan wrote its rows: they
\* are in another rowid order than after the first scan.
C21_Witness ==
    /\ SameScanTwice
    /\ last.scanned[2] = <<".">>
    /\ ~last.skip_existing
    /\ Len(index) = Cardinality(Paths)
    /\ index # last.index_before

\* The last operation was a scan that put paths on the queue and is over.
ScanDone == last.op = "scan" /\ ~scanning /\ last.queued # <<>>

\* The paths the last scan put on its queue, resolved.
QueuedPaths == {Resolve(last.queued[i]) : i \in DOMAIN last.queued}

\* The paths of the records the last scan's batch insert wrote.
WrittenPaths == {last.written[i][2] : i \in DOMAIN last.written}

\* C22: a scan with skip_existing puts no indexed path on its queue, writes
\* no row of a path that was indexed before it, so that those rows keep hash,
\* size and time stamps, and hashes and inserts the paths under the root that
\* were not indexed.
C22_SkipExistingLeavesRecordsAlone ==
    (ScanDone /\ last.skip_existing) =>
        /\ QueuedPaths \cap IndexPaths(last.index_before) = {}
        /\ WrittenPaths \cap IndexPaths(last.index_before) = {}
        /\ Range(last.index_before) \subseteq Range(index)
        /\ IndexPaths(index) \ IndexPaths(last.index_before) = QueuedPaths

\* C23: every record the batch insert of a scan writes is for a path that
\* scan put on its queue and hashed.
C23_CommitOnlyOwnRecords ==
    ScanDone => WrittenPaths \subseteq QueuedPaths

\* The entries the last scan's workers appended to processed_data.
Received == SubSeq(processed_data, last.processed_before + 1, Len(processed_data))

\* C24: when a scan is over, whatever the number of threads and the
\* interleaving, the result list has received exactly one entry for every
\* path that was queued, the entry of the file at that path, and the overall
\* progress count is the number of queued paths; and while it runs no two
\* workers hold the same path.
C24_EachQueuedPathHashedOnce ==
    /\ \A t, u \in Threads :
          (t # u /\ worker[t].pc = "file" /\ worker[u].pc = "file") =>
              worker[t].file # worker[u].file
    /\ (ScanDone /\ disk = last.disk_before) =>
          /\ Len(Received) = Len(last.queued)
          /\ {Received[i][2] : i \in DOMAIN Received} = QueuedPaths
          /\ \A i \in DOMAIN Received :
                Received[i] = HashFile(disk, Received[i][2])
          /\ overall_pbar = Len(last.queued)

\* A scan of the whole tree is over whose results came in another order than
\* the paths were queued: two threads worked side by side.
C24_Witness ==
    /\ ScanDone
    /\ Len(last.queued) = Cardinality(Paths)
    /\ Received[1][2] # Resolve(last.queued[1])
    /\ overall_pbar = Cardinality(Paths)

\* Every worker thread of the running scan has left its loop.
AllWorkersExited == scanning /\ \A t \in Threads : worker[t].pc \in {"off", "exit"}

\* C25: under fair scheduling a scan that has started its workers comes to
\* the point where every worker has left its loop, and from there to its end,
\* the batch insert done.
C25_ScanTerminates ==
    /\ (scanning /\ ~AllWorkersExited) ~> AllWorkersExited
    /\ scanning ~> (~scanning /\ last.written # <<>>)

\* Two workers raced for the last queued path: one holds it, the other saw a
\* queue that was not empty and now finds nothing to take.
C25_Witness ==
    /\ scanning
    /\ file_queue = <<>>
    /\ \E t, u \in Threads : worker[t].pc = "get" /\ worker[u].pc = "file"

\* The paths of the entries the last scan's workers appended.
ReceivedPaths == {Received[i][2] : i \in DOMAIN Received}

\* C26: when a scan is over during which files vanished or could not be read,
\* every queued path has been taken; a path whose read failed has no record;
\* a path without a result failed or is gone; every result is the one of the
\* file as it was and has its row in the index.
C26_LostFileDoesNotStopScan ==
    (ScanDone /\ Len(last.scanned) = 1) =>
        /\ overall_pbar = Len(last.queued)
        /\ \A f \in last.failed : f \notin ReceivedPaths /\ f \notin IndexPaths(index)
        /\ \A f \in QueuedPaths :
              f \in ReceivedPaths \/ f \in last.failed \/ ~Exists(disk, f)
        /\ \A i \in DOMAIN Received :
              /\ Received[i] = HashFile(last.disk_before, Received[i][2])
              /\ Received[i][2] \in IndexPaths(index)
              /\ HashOf(index, Received[i][2]) = Received[i][1]

\* A scan of the whole tree is over: the first queued file vanished before it
\* was read and has no row, a later one could not be read, and one after
\* that has its row.
C26_Witness ==
    /\ ScanDone /\ Len(last.scanned) = 1
    /\ Len(last.queued) = Cardinality(Paths)
    /\ ~Exists(disk, Resolve(last.queued[1]))
    /\ Resolve(last.queued[1]) \notin IndexPaths(index)
    /\ Resolve(last.queued[2]) \in last.failed
    /\ Resolve(last.queued[3]) \in IndexPaths(index)

\* The rows of a list of results.
RowsOfData(data_list) ==
    {Row(data_list[i][1], data_list[i][2], data_list[i][3]) : i \in DOMAIN data_list}

\* C27: a query beside the first scan of a process reads a table with none of
\* the rows of the scan's batch or, once the batch is committed, with all of
\* them; and while a worker of the scan is still running the table is as it
\* was when the scan began.
C27_QuerySeesNoneOrAllOfBatch ==
    last.op = "scan" =>
        /\ \A v \in last.seen :
              \/ v = last.index_before
              \/ /\ last.written # <<>>
                 /\ RowsOfData(last.written) \subseteq Range(v)
        /\ (scanning /\ ~AllWorkersExited) => index = last.index_before

\* A scan committed a batch of more than one row; one query beside it read the
\* table before the commit and another after it.
C27_Witness ==
    /\ last.op = "scan"
    /\ Len(last.written) > 1
    /\ Cardinality(last.seen) = 2
    /\ index \in last.seen

\* C28: when the storage layer rejects one record of a batch, every other
\* record of the batch is in the index after the scan.
C28_OnlyRejectedRecordDropped ==
    (last.op = "scan" /\ ~scanning /\ last.rejected # Empty) =>
        \A r \in RowsOfData(last.given) :
            r.path # last.rejected => r \in Range(index)

\* Every caller has been through insert_data, all with records of one path.
UpsertsOfOnePathDone ==
    /\ \A c \in Callers : upserter[c].pc = "done"
    /\ \A c, d \in Callers : upserter[c].data[2] = upserter[d].data[2]

\* C29: when two callers have run insert_data for the same path side by side,
\* in whatever interleaving of their SELECTs and writes, each write was stored
\* and the path's row is the record of the caller that wrote last.
C29_SamePathLastWriteWins ==
    UpsertsOfOnePathDone =>
        /\ \A i \in DOMAIN last.writes : last.writes[i].stored
        /\ LET final == last.writes[Len(last.writes)].data
           IN  /\ final[2] \in IndexPaths(index)
               /\ index[RowIndexOf(index, final[2])] = Row(final[1], final[2], final[3])

\* ------------------------------------------------------------------------
\* Properties of the File Index
\* ------------------------------------------------------------------------

\* C6: whatever scans, upserts, rescans and prunes have run and whatever
\* files were written and removed, the table holds at most one row per path
\* and the hash and size of a row are those of the latest write of the row.
C6_OneRowPerPathLatestUpsert ==
    /\ \A i, j \in DOMAIN index : index[i].path = index[j].path => i = j
    /\ \A i \in DOMAIN index :
          upserted[index[i].path] = Some(<<index[i].hash, index[i].size>>)

\* After a second scan: a path that was hashed twice, with different
\* results, has one row, with the later hash.
C6_Witness ==
    /\ ~scanning
    /\ \E i, j \in DOMAIN processed_data :
          /\ i < j
          /\ processed_data[i][2] = processed_data[j][2]
          /\ processed_data[i][1] # processed_data[j][1]
          /\ \A k \in DOMAIN processed_data :
                k > j => processed_data[k][2] # processed_data[j][2]
          /\ \E r \in DOMAIN index :
                /\ index[r].path = processed_data[j][2]
                /\ index[r].hash = processed_data[j][1]

====
